---- MODULE Spec2Model ----
\* A model of src/main.py: the job registry, the /api/start and /api/status
\* handlers, and the supervisor workflow thread (dispatch / audit / retry loop)
\* with its workers, its auditor and its event log.
\*
\* The completion backend (ChatOpenAI and the chains built on it) is the
\* environment: each chain.invoke returns one of a few values or raises. The
\* page served at / is not modelled beyond the payload it posts and the polls it
\* sends. A thread keeps the locals it reads again (state, current_phase_idx, e);
\* the temporaries of one loop iteration live inside the step that uses them.
EXTENDS Integers, Sequences, FiniteSets, TLC

VARIABLES
    jobs,       \* main.py:15   the registry: job id -> job dict
    pool,       \* main.py:239  uuid4 values not yet issued
    now,        \* main.py:23   the wall clock read by log_to_job
    threads,    \* main.py:241  job id -> its process_workflow thread: the line it
                \*              executes next (pc) and the locals it still reads
    response,   \* main.py:246  the body of the last /api/status response
    backend     \* main.py:152  the completion backend when it answers the same
                \*              prompt the same way: prompt -> the outcome it gave

vars == <<jobs, pool, now, threads, response, backend>>

----------------------------------------------------------------------------
\* Bounds of the model.

\* Number of distinct texts the completion backend can return to the writer.
NumDrafts == 1
\* Number of distinct replacement instructions the auditor backend can propose.
NumRewrites == 1
\* Number of clock ticks (seconds) a run can span.
MaxClock == 1

----------------------------------------------------------------------------
\* Python values.

\* Python's None (a string, so that it compares with the str values it replaces).
None == "<None>"

\* str(v) / f"{v}" of a value that is a str or None.
Str(v) == IF v = None THEN "None" ELSE v

\* {} : the dict with no keys.
EmptyDict == [k \in {} |-> None]

\* d.get(k, default)
Get(d, k, default) == IF k \in DOMAIN d THEN d[k] ELSE default

\* The outcome of a call: it returns a value or raises an exception with a message.
Return(v) == [ret |-> v]
Raise(msg) == [exc |-> msg]
Raised(o) == "exc" \in DOMAIN o

\* Binding a local variable (or a dict key) to a value.
Bind(d, k, v) == (k :> v) @@ d

----------------------------------------------------------------------------
\* Program constants.

MAX_RETRIES == 3

phases == <<
    [role |-> "RESEARCHER", key |-> "research",
     criteria |-> "Must mention specific recent events."],
    [role |-> "WRITER", key |-> "copy",
     criteria |-> "Must be under 300 chars. NO placeholders like [Name]. Must sound casual, not robotic."] >>

InitialInstructions ==
    [RESEARCHER |-> "Find general strategic challenges and financial health.",
     WRITER |-> "Write a standard professional connection request (under 300 chars)."]

AutoPassed ==
    [status |-> "PASS", reason |-> "Auto-passed (Format Error)", new_instructions |-> ""]

----------------------------------------------------------------------------
\* The environment: payloads, backends, identifiers.

JobIds == {"job-1"}

\* Record lists of a payload: none, or the one record of the page's sample input.
RecordLists == {<<>>, <<[companyName |-> "TechFlow", firstName |-> "Alex"]>>}

\* request.json of /api/start: with or without input_json, with or without records.
Payloads ==
    {EmptyDict, [input_json |-> EmptyDict]}
        \cup {[input_json |-> [records |-> rs]] : rs \in RecordLists}

\* Replacement instructions the auditor backend can write.
Rewrites == {"Rewrite #" \o ToString(n) \o ": cover the tech stack." : n \in 1..NumRewrites}

\* What the parsed JSON of the auditor backend can hold under new_instructions.
NewInstructionValues == {"", None} \cup Rewrites

\* Parsed replies of the auditor chain: a JSON object without "status", a PASS
\* with or without "reason", and a FAIL with or without "reason" and with or
\* without "new_instructions".
AuditorDicts ==
    LET F == {[status |-> "FAIL"], [status |-> "FAIL", reason |-> "too formal"]}
    IN  {EmptyDict, [status |-> "PASS"], [status |-> "PASS", reason |-> "ok"]}
            \cup F
            \cup {Bind(d, "new_instructions", v) : d \in F, v \in NewInstructionValues}

\* Outcomes of chain.invoke in audit_and_revise: a parsed dict, or an exception
\* (the backend call failed, or JsonOutputParser could not parse the text).
AuditorReplies == {Return(d) : d \in AuditorDicts} \cup {Raise("Invalid json output")}

\* Outcomes of chain.invoke in worker_writer: a text, or an exception.
Drafts == {"Draft #" \o ToString(n) : n \in 1..NumDrafts}
WriterReplies == {Return(t) : t \in Drafts} \cup {Raise("Connection error.")}

----------------------------------------------------------------------------
\* The event log.

\* The markup log_to_job renders: the template chosen by `type` and the values
\* that template interpolates. "decision" drops the source, "critique" drops the
\* source and the timestamp, "thought" drops the timestamp; every other type
\* ("info", "success", the default) renders the one system-status template.
Html(type, timestamp, source, message) ==
    IF type = "decision" THEN
        [template |-> "SUPERVISOR INTERVENTION", timestamp |-> timestamp, message |-> message]
    ELSE IF type = "critique" THEN
        [template |-> "Prompt Modification Required", message |-> message]
    ELSE IF type = "thought" THEN
        [template |-> "Output", source |-> source, message |-> message]
    ELSE
        [template |-> "System Status", timestamp |-> timestamp, source |-> source,
         message |-> message]

\* log_to_job on the registry J: append the markup to the job's log, if the job exists.
log_with_job_id(J, job_id, source, message, type) ==
    IF job_id \in DOMAIN J
    THEN [J EXCEPT ![job_id].logs = Append(@, Html(type, now, job_id, message))]
    ELSE J
log_to_every_job(J, job_id, source, message, type) ==
    [j \in DOMAIN J |-> [J[j] EXCEPT !.logs = Append(@, Html(type, now, source, message))]]
log_to_job(J, job_id, source, message, type) ==
    IF job_id \in DOMAIN J
    THEN [J EXCEPT ![job_id].logs = Append(@, Html(type, now, source, message))]
    ELSE J

----------------------------------------------------------------------------
\* The auditor.

\* audit_and_revise's result for an outcome of its chain: the parsed value as it
\* is, or the auto-pass verdict when the chain raised.
audit_and_revise(reply) == IF Raised(reply) THEN AutoPassed ELSE reply.ret

----------------------------------------------------------------------------
\* The workers.

\* word in text.lower(), for the instruction texts of this model.
Contains(text, word) ==
    \/ word = "financial" /\ text = InitialInstructions.RESEARCHER
    \/ word = "tech" /\ text \in Rewrites

\* worker_research on the registry J: its log line, then the simulated data
\* chosen by the keywords of the instructions; None has no lower().
worker_research(J, job_id, state, instructions) ==
    LET company == state.company_name
        J1 == log_to_job(J, job_id, "RESEARCHER",
                         "Executing instructions: " \o Str(instructions), "info")
        out == IF instructions = None
               THEN Raise("'NoneType' object has no attribute 'lower'")
               ELSE IF Contains(instructions, "financial")
               THEN Return("Deep Dive Financials for " \o company)
               ELSE IF Contains(instructions, "tech")
               THEN Return("Tech Stack for " \o company)
               ELSE Return("General Overview of " \o company)
    IN  [J |-> J1, out |-> out]

\* worker_writer on the registry J, `reply` being the outcome of its chain: its
\* log line, then the chain's exception, or the text logged and returned.
worker_writer(J, job_id, state, instructions, reply) ==
    LET J1 == log_to_job(J, job_id, "WRITER", "Writing...", "info")
    IN  IF Raised(reply)
        THEN [J |-> J1, out |-> reply]
        ELSE [J |-> log_to_job(J1, job_id, "WRITER", reply.ret, "thought"), out |-> reply]

----------------------------------------------------------------------------
\* The orchestrator's decisions.

\* main.py:188  the message of the event logged before a worker is prompted
PromptMessage(role, instruction) ==
    "Prompting " \o role \o " with:\n'" \o Str(instruction) \o "'"

\* main.py:155  `if not records: return`
NoRecords(records) == Len(records) = 0

\* main.py:207  the retry budget test
WithinBudgetInclusive(retries) == retries <= MAX_RETRIES
WithinBudget(retries) == retries < MAX_RETRIES

\* main.py:211  the instruction stored on a rejection
KeepInstructions(audit_res, current) == current
NewInstructions(audit_res, current) == Get(audit_res, "new_instructions", current)

\* main.py:186  the instruction a dispatch hands to the worker of `role`
FirstInstruction(state, role) == state.instructions["RESEARCHER"]
CurrentInstruction(state, role) == state.instructions[role]

\* main.py:212  state['instructions'][role] = new_instructions
StoreForAll(instructions, role, new_instructions) ==
    [r \in DOMAIN instructions |-> new_instructions]
StoreInstruction(instructions, role, new_instructions) ==
    [instructions EXCEPT ![role] = new_instructions]

\* main.py:214  state[key] = None
KeepOutput(state, key) == state
WipeOutput(state, key) == [state EXCEPT ![key] = None]

\* main.py:203, 219  current_phase_idx += 1
SamePhase(current_phase_idx) == current_phase_idx
NextPhase(current_phase_idx) == current_phase_idx + 1

\* main.py:230  the message of the event logged for an exception
BareErrorMessage(e) == "Critical Error"
ErrorMessage(e) == "Critical Error: " \o e

\* main.py:221  int((current_phase_idx / len(phases)) * 100)
ProgressRemaining(current_phase_idx) ==
    ((Len(phases) - current_phase_idx) * 100) \div Len(phases)
Progress(current_phase_idx) == (current_phase_idx * 100) \div Len(phases)

----------------------------------------------------------------------------
\* The initial state: an empty registry, no thread, no response sent.

Init ==
    /\ jobs = EmptyDict
    /\ pool = JobIds
    /\ now = 0
    /\ threads = EmptyDict
    /\ response = EmptyDict
    /\ backend = EmptyDict

\* The locals `new` assigned in the frame of job_id's thread.
Assign(job_id, new) == threads' = [threads EXCEPT ![job_id] = new @@ @]

----------------------------------------------------------------------------
\* /api/start (main.py:236-242): register the job and start its thread.

start_job(job_id, data) ==
    /\ job_id \in pool
    /\ pool' = pool \ {job_id}
    /\ jobs' = Bind(jobs, job_id,
                    [id |-> job_id, status |-> "running", logs |-> <<>>,
                     result |-> None, progress |-> 0])
    /\ threads' = Bind(threads, job_id, [pc |-> "L151", input_data |-> data])
    /\ UNCHANGED <<now, response>>

----------------------------------------------------------------------------
\* process_workflow (main.py:150-230), one step at a time. pc is the line the
\* thread executes next; "returned" and "died" are the two ways it ends.

\* Lines 151-176: read the records, return when there are none, build the state.
\* A payload without input_json raises KeyError outside the try block.
Setup(job_id) ==
    LET f == threads[job_id]
        records == Get(f.input_data["input_json"], "records", <<>>)
    IN  /\ f.pc = "L151"
        /\ IF "input_json" \notin DOMAIN f.input_data
           THEN Assign(job_id, [pc |-> "died", uncaught |-> "'input_json'"])
           ELSE IF NoRecords(records)
           THEN Assign(job_id, [pc |-> "returned"])
           ELSE Assign(job_id,
                    [pc |-> "L179",
                     state |-> [input_records |-> records,
                                company_name |-> Get(records[1], "companyName", "Unknown"),
                                research |-> None,
                                copy |-> None,
                                instructions |-> InitialInstructions,
                                retry_counts |-> [RESEARCHER |-> 0, WRITER |-> 0]],
                     current_phase_idx |-> 0])
        /\ UNCHANGED <<jobs, pool, now, response>>

\* Lines 179-195 and 221: the phase has no output, so its worker is prompted with
\* the phase's current instruction. An exception of the worker leaves the loop.
Dispatch(job_id, reply) ==
    LET f == threads[job_id]
        state == f.state
        phase == phases[f.current_phase_idx + 1]
        role == phase.role
        key == phase.key
        current_instruction == CurrentInstruction(state, role)
        J1 == log_to_job(jobs, job_id, "SUPERVISOR",
                         PromptMessage(role, current_instruction), "decision")
        call == IF role = "RESEARCHER"
                THEN worker_research(J1, job_id, state, current_instruction)
                ELSE worker_writer(J1, job_id, state, current_instruction, reply)
    IN  /\ f.pc = "L179"
        /\ f.current_phase_idx < Len(phases)
        /\ state[key] = None
        /\ IF Raised(call.out)
           THEN /\ jobs' = call.J
                /\ Assign(job_id, [pc |-> "L229", e |-> call.out.exc])
           ELSE /\ jobs' = [call.J EXCEPT ![job_id].progress = Progress(f.current_phase_idx)]
                /\ Assign(job_id, [pc |-> "L179", state |-> [state EXCEPT ![key] = call.out.ret]])
        /\ UNCHANGED <<pool, now, response>>

\* Lines 179-183, 197-221: the phase has an output, so it is audited. PASS
\* advances the cursor; any other status rejects the output while the role's
\* retry budget lasts (the counter grows, the instruction is overwritten, the
\* output is wiped) and accepts it once the budget is spent. Indexing a verdict
\* without "status", or a rejected one without "reason", raises KeyError.
Audit(job_id, reply) ==
    LET f == threads[job_id]
        state == f.state
        phase == phases[f.current_phase_idx + 1]
        role == phase.role
        key == phase.key
        J1 == log_to_job(jobs, job_id, "QA_BOT", "Auditing " \o role \o "...", "info")
        audit_res == audit_and_revise(reply)
        retries == state.retry_counts[role]
        new_instructions == NewInstructions(audit_res, state.instructions[role])
        wiped == WipeOutput(
                     [state EXCEPT
                          !.retry_counts[role] = @ + 1,
                          !.instructions = StoreInstruction(@, role, new_instructions)],
                     key)
        advanced == NextPhase(f.current_phase_idx)
    IN  /\ f.pc = "L179"
        /\ f.current_phase_idx < Len(phases)
        /\ state[key] # None
        /\ IF "status" \notin DOMAIN audit_res
           THEN /\ jobs' = J1
                /\ Assign(job_id, [pc |-> "L229", e |-> "'status'"])
           ELSE IF audit_res["status"] = "PASS"
           THEN /\ jobs' = [log_to_job(J1, job_id, "QA", "Approved.", "success")
                               EXCEPT ![job_id].progress = Progress(advanced)]
                /\ Assign(job_id, [pc |-> "L179", current_phase_idx |-> advanced])
           ELSE IF WithinBudget(retries)
           THEN IF "reason" \notin DOMAIN audit_res
                THEN /\ jobs' = J1
                     /\ Assign(job_id, [pc |-> "L229", state |-> wiped, e |-> "'reason'"])
                ELSE /\ jobs' =
                          [log_to_job(
                               log_to_job(J1, job_id, "QA",
                                          "Output Rejected: " \o Str(audit_res["reason"]),
                                          "critique"),
                               job_id, "SUPERVISOR",
                               "REWRITING PROMPT FOR AGENT (Retry "
                                   \o ToString(retries + 1) \o ")...",
                               "decision")
                             EXCEPT ![job_id].progress = Progress(f.current_phase_idx)]
                     /\ Assign(job_id, [pc |-> "L179", state |-> wiped])
           ELSE /\ jobs' = [log_to_job(J1, job_id, "QA",
                                       "Max retries hit. Accepting result.", "info")
                               EXCEPT ![job_id].progress = Progress(advanced)]
                /\ Assign(job_id, [pc |-> "L179", current_phase_idx |-> advanced])
        /\ UNCHANGED <<pool, now, response>>

\* Line 179 (the loop ends) and line 223: job['result'] = state['copy'].
SetResult(job_id) ==
    LET f == threads[job_id]
    IN  /\ f.pc = "L179"
        /\ f.current_phase_idx >= Len(phases)
        /\ jobs' = [jobs EXCEPT ![job_id].result = f.state.copy]
        /\ Assign(job_id, [pc |-> "L224"])
        /\ UNCHANGED <<pool, now, response>>

\* Line 224: job['status'] = "completed".
SetCompleted(job_id) ==
    /\ threads[job_id].pc = "L224"
    /\ jobs' = [jobs EXCEPT ![job_id].status = "completed"]
    /\ Assign(job_id, [pc |-> "L225"])
    /\ UNCHANGED <<pool, now, response>>

\* Line 225: job['progress'] = 100.
SetProgress(job_id) ==
    /\ threads[job_id].pc = "L225"
    /\ jobs' = [jobs EXCEPT ![job_id].progress = 100]
    /\ Assign(job_id, [pc |-> "L226"])
    /\ UNCHANGED <<pool, now, response>>

\* Line 226: the closing log line; the thread returns.
LogComplete(job_id) ==
    /\ threads[job_id].pc = "L226"
    /\ jobs' = log_to_job(jobs, job_id, "SYSTEM", "Workflow Complete.", "info")
    /\ Assign(job_id, [pc |-> "returned"])
    /\ UNCHANGED <<pool, now, response>>

\* Line 229, in the handler of an exception of the loop: job['status'] = "failed".
SetFailed(job_id) ==
    /\ threads[job_id].pc = "L229"
    /\ jobs' = [jobs EXCEPT ![job_id].status = "failed"]
    /\ Assign(job_id, [pc |-> "L230"])
    /\ UNCHANGED <<pool, now, response>>

\* Line 230: the exception's message is logged; the thread returns.
LogError(job_id) ==
    /\ threads[job_id].pc = "L230"
    /\ jobs' = log_to_job(jobs, job_id, "SYSTEM",
                          ErrorMessage(threads[job_id].e), "info")
    /\ Assign(job_id, [pc |-> "returned"])
    /\ UNCHANGED <<pool, now, response>>

----------------------------------------------------------------------------
\* /api/status/<job_id> (main.py:244-246): the job dict as it is now, or an error.

status(job_id) ==
    /\ response' = Get(jobs, job_id, [error |-> "not found"])
    /\ UNCHANGED <<jobs, pool, now, threads>>

\* The wall clock passes to the next second.
Tick ==
    /\ now < MaxClock
    /\ now' = now + 1
    /\ UNCHANGED <<jobs, pool, threads, response>>

----------------------------------------------------------------------------
\* Specifications.

Submit == \E job_id \in JobIds, data \in Payloads : start_job(job_id, data)

\* Jobs are submitted and run, the backends answering in every way.
Next ==
    \/ Submit /\ UNCHANGED backend
    \/ \E job_id \in DOMAIN threads : Setup(job_id) /\ UNCHANGED backend
    \/ \E job_id \in DOMAIN threads, reply \in WriterReplies : Dispatch(job_id, reply) /\ UNCHANGED backend
    \/ \E job_id \in DOMAIN threads, reply \in AuditorReplies : Audit(job_id, reply) /\ UNCHANGED backend
    \/ \E job_id \in DOMAIN threads : SetResult(job_id) /\ UNCHANGED backend
    \/ \E job_id \in DOMAIN threads : SetCompleted(job_id) /\ UNCHANGED backend
    \/ \E job_id \in DOMAIN threads : SetProgress(job_id) /\ UNCHANGED backend
    \/ \E job_id \in DOMAIN threads : LogComplete(job_id) /\ UNCHANGED backend
    \/ \E job_id \in DOMAIN threads : SetFailed(job_id) /\ UNCHANGED backend
    \/ \E job_id \in DOMAIN threads : LogError(job_id) /\ UNCHANGED backend

Spec == Init /\ [][Next]_vars

\* A client polls while the clock runs. The auditor backend answers with a
\* well-formed PASS, a well-formed FAIL carrying a rewrite, or an exception.
PolledAuditorReplies ==
    {Return([status |-> "PASS", reason |-> "ok"]), Raise("Invalid json output")}
        \cup {Return([status |-> "FAIL", reason |-> "too formal", new_instructions |-> t])
                : t \in Rewrites}

Poll == \E job_id \in JobIds \cup {"no-such-job"} : status(job_id)

NextPolled ==
    \/ Submit /\ UNCHANGED backend
    \/ Poll /\ UNCHANGED backend
    \/ Tick /\ UNCHANGED backend
    \/ \E job_id \in DOMAIN threads : Setup(job_id) /\ UNCHANGED backend
    \/ \E job_id \in DOMAIN threads, reply \in WriterReplies : Dispatch(job_id, reply) /\ UNCHANGED backend
    \/ \E job_id \in DOMAIN threads, reply \in PolledAuditorReplies : Audit(job_id, reply) /\ UNCHANGED backend
    \/ \E job_id \in DOMAIN threads : SetResult(job_id) /\ UNCHANGED backend
    \/ \E job_id \in DOMAIN threads : SetCompleted(job_id) /\ UNCHANGED backend
    \/ \E job_id \in DOMAIN threads : SetProgress(job_id) /\ UNCHANGED backend
    \/ \E job_id \in DOMAIN threads : LogComplete(job_id) /\ UNCHANGED backend
    \/ \E job_id \in DOMAIN threads : SetFailed(job_id) /\ UNCHANGED backend
    \/ \E job_id \in DOMAIN threads : LogError(job_id) /\ UNCHANGED backend

SpecPolled == Init /\ [][NextPolled]_vars

\* The auditor rejects every output it is shown, with every shape of FAIL
\* verdict, and the writer's backend always returns a text.
FailReplies == {Return(d) : d \in {a \in AuditorDicts : Get(a, "status", None) = "FAIL"}}

NextAllFail ==
    \/ Submit /\ UNCHANGED backend
    \/ \E job_id \in DOMAIN threads : Setup(job_id) /\ UNCHANGED backend
    \/ \E job_id \in DOMAIN threads, t \in Drafts : Dispatch(job_id, Return(t)) /\ UNCHANGED backend
    \/ \E job_id \in DOMAIN threads, reply \in FailReplies : Audit(job_id, reply) /\ UNCHANGED backend
    \/ \E job_id \in DOMAIN threads : SetResult(job_id) /\ UNCHANGED backend
    \/ \E job_id \in DOMAIN threads : SetCompleted(job_id) /\ UNCHANGED backend
    \/ \E job_id \in DOMAIN threads : SetProgress(job_id) /\ UNCHANGED backend
    \/ \E job_id \in DOMAIN threads : LogComplete(job_id) /\ UNCHANGED backend
    \/ \E job_id \in DOMAIN threads : SetFailed(job_id) /\ UNCHANGED backend
    \/ \E job_id \in DOMAIN threads : LogError(job_id) /\ UNCHANGED backend

SpecAllFail == Init /\ [][NextAllFail]_vars

\* Two jobs are submitted with a record each and their threads run concurrently.
\* The auditor backend answers with a well-formed PASS or FAIL, the writer's
\* with one text or an exception.
RunIds == {"job-1", "job-2"}

InitTwoJobs ==
    /\ jobs = EmptyDict
    /\ pool = RunIds
    /\ now = 0
    /\ threads = EmptyDict
    /\ response = EmptyDict
    /\ backend = EmptyDict

TwoJobsAuditorReplies ==
    {Return([status |-> "PASS", reason |-> "ok"]),
     Return([status |-> "FAIL", reason |-> "too formal"])}

TwoJobsWriterReplies == {Return("Draft #1"), Raise("Connection error.")}

TwoJobsPayloads ==
    {data \in Payloads :
        /\ "input_json" \in DOMAIN data
        /\ ~NoRecords(Get(data["input_json"], "records", <<>>))}

NextTwoJobs ==
    \/ \E job_id \in RunIds, data \in TwoJobsPayloads : start_job(job_id, data) /\ UNCHANGED backend
    \/ \E job_id \in DOMAIN threads : Setup(job_id) /\ UNCHANGED backend
    \/ \E job_id \in DOMAIN threads, reply \in TwoJobsWriterReplies : Dispatch(job_id, reply) /\ UNCHANGED backend
    \/ \E job_id \in DOMAIN threads, reply \in TwoJobsAuditorReplies : Audit(job_id, reply) /\ UNCHANGED backend
    \/ \E job_id \in DOMAIN threads : SetResult(job_id) /\ UNCHANGED backend
    \/ \E job_id \in DOMAIN threads : SetCompleted(job_id) /\ UNCHANGED backend
    \/ \E job_id \in DOMAIN threads : SetProgress(job_id) /\ UNCHANGED backend
    \/ \E job_id \in DOMAIN threads : LogComplete(job_id) /\ UNCHANGED backend
    \/ \E job_id \in DOMAIN threads : SetFailed(job_id) /\ UNCHANGED backend
    \/ \E job_id \in DOMAIN threads : LogError(job_id) /\ UNCHANGED backend

SpecTwoJobs == InitTwoJobs /\ [][NextTwoJobs]_vars

----------------------------------------------------------------------------
\* Vocabulary of the properties.

Roles == {phases[i].role : i \in 1..Len(phases)}

\* The role and the state key of the phase a thread is at.
CurrentRole(f) == phases[f.current_phase_idx + 1].role
CurrentKey(f) == phases[f.current_phase_idx + 1].key

\* Every value an instruction slot can hold.
InstructionValues == {InitialInstructions[r] : r \in Roles} \cup NewInstructionValues

\* The messages of dispatch events, and of the workers' first log lines.
DispatchMessages == {PromptMessage(r, i) : r \in Roles, i \in InstructionValues}
WorkerMessages ==
    {"Writing..."} \cup {"Executing instructions: " \o Str(i) : i \in InstructionValues}

\* The literal prefixes the program's messages put before an interpolated value.
MessagePrefixes ==
    {"", "Output Rejected: ", "Critical Error: ", "Executing instructions: ", "Approved. "}

\* The message carries the text, bare or after one of the prefixes.
Mentions(message, text) == \E prefix \in MessagePrefixes : message = prefix \o text

\* The payload's record list is empty or missing.
NoRecordList(data) ==
    /\ "input_json" \in DOMAIN data
    /\ Get(data["input_json"], "records", <<>>) = <<>>

\* The events the step appended to the job's log.
Appended(job_id) ==
    {jobs'[job_id].logs[i] : i \in (Len(jobs[job_id].logs) + 1)..Len(jobs'[job_id].logs)}

\* The auditor's reply is an exception, or a parsed value without status or reason.
Malformed(reply) ==
    \/ Raised(reply)
    \/ "status" \notin DOMAIN reply.ret
    \/ "reason" \notin DOMAIN reply.ret

\* The thread is in the loop, at a phase.
AtPhase(f) == f.pc = "L179" /\ f.current_phase_idx < Len(phases)

\* The step is the reject-and-retry transition of an audit: the output is wiped.
Rejects(job_id, reply) ==
    /\ AtPhase(threads[job_id])
    /\ threads'[job_id].state[CurrentKey(threads[job_id])] = None
    /\ Audit(job_id, reply)

----------------------------------------------------------------------------
\* C1: a run whose payload has an empty or missing record list ends with status
\* failed, with no dispatch event in its log and no worker invoked.
C1_EmptyRecordsFail ==
    \A job_id \in DOMAIN threads :
        (NoRecordList(threads[job_id].input_data) /\ threads[job_id].pc = "returned")
            => /\ jobs[job_id].status = "failed"
               /\ \A i \in 1..Len(jobs[job_id].logs) :
                      jobs[job_id].logs[i].message \notin DispatchMessages \cup WorkerMessages

\* C2: no retry counter ever exceeds MAX_RETRIES, and an audit of a phase whose
\* counter is at MAX_RETRIES advances the cursor on a PASS and on a FAIL verdict:
\* a step from such a phase advances the cursor or is no audit with such a verdict.
C2_RetryBudget ==
    [][\A job_id \in DOMAIN threads :
         /\ "state" \in DOMAIN threads'[job_id]
                => \A role \in Roles :
                       threads'[job_id].state.retry_counts[role] <= MAX_RETRIES
         /\ (/\ AtPhase(threads[job_id])
             /\ threads[job_id].state.retry_counts[CurrentRole(threads[job_id])]
                    = MAX_RETRIES)
                => \/ threads'[job_id].current_phase_idx
                          = threads[job_id].current_phase_idx + 1
                   \/ \A reply \in AuditorReplies :
                          Get(audit_and_revise(reply), "status", "") \in {"PASS", "FAIL"}
                              => ~Audit(job_id, reply)]_vars

\* A phase was accepted with its budget spent: the counter is at MAX_RETRIES and
\* the audit after the last retry advanced the cursor.
C2_Witness ==
    \E job_id \in DOMAIN threads :
        /\ "state" \in DOMAIN threads[job_id]
        /\ threads[job_id].state.retry_counts["RESEARCHER"] = MAX_RETRIES
        /\ threads[job_id].current_phase_idx = 1
        /\ \E i \in 1..Len(jobs[job_id].logs) :
               jobs[job_id].logs[i].message = "Max retries hit. Accepting result."

\* C3: an audit whose backend raised, or whose parsed verdict lacks status or
\* reason, passes: the cursor advances and the run goes on, not to failure.
C3_MalformedVerdictPasses ==
    [][\A job_id \in DOMAIN threads : \A reply \in AuditorReplies :
         (Audit(job_id, reply) /\ Malformed(reply))
             => /\ threads'[job_id].current_phase_idx
                       = threads[job_id].current_phase_idx + 1
                /\ threads'[job_id].pc = "L179"]_vars

\* C4: an audit auto-passed because the backend raised appends an event that
\* carries the synthetic auto-passed reason.
C4_AutoPassReasonLogged ==
    [][\A job_id \in DOMAIN threads : \A reply \in AuditorReplies :
         (Audit(job_id, reply) /\ Raised(reply))
             => \E event \in Appended(job_id) :
                    Mentions(event.message, AutoPassed.reason)]_vars

\* C5 as stated: the reject-and-retry transition stores an instruction that
\* differs from the one of the dispatch it rejects, whatever the verdict holds.
C5_RetryChangesInstruction ==
    [][\A job_id \in DOMAIN threads : \A reply \in AuditorReplies :
         Rejects(job_id, reply)
             => threads'[job_id].state.instructions[CurrentRole(threads[job_id])]
                    # threads[job_id].state.instructions[CurrentRole(threads[job_id])]]_vars

\* C5 as amended: the reject-and-retry transition stores the verdict's
\* new_instructions value when the verdict has that key, and the instruction of
\* the rejected dispatch when it has not; so the stored instruction differs from
\* the rejected one only when the verdict carries a different value.
C5_RetryStoresVerdictInstruction ==
    [][\A job_id \in DOMAIN threads : \A reply \in AuditorReplies :
         Rejects(job_id, reply)
             => LET role == CurrentRole(threads[job_id])
                    before == threads[job_id].state.instructions[role]
                    after == threads'[job_id].state.instructions[role]
                    verdict == audit_and_revise(reply)
                IN  /\ "new_instructions" \in DOMAIN verdict
                           => after = verdict["new_instructions"]
                    /\ "new_instructions" \notin DOMAIN verdict => after = before]_vars

\* A rejection stored a rewrite of the auditor as the researcher's instruction.
C5_Witness ==
    \E job_id \in DOMAIN threads :
        /\ "state" \in DOMAIN threads[job_id]
        /\ threads[job_id].state.research = None
        /\ threads[job_id].state.retry_counts["RESEARCHER"] >= 1
        /\ threads[job_id].state.instructions["RESEARCHER"] \in Rewrites

\* C6: a rejection whose verdict has no new_instructions, or an empty or null
\* one, leaves the phase's instruction as it was, and the dispatch that follows
\* a rejection does not end the run unless the worker's backend raises.
C6_MissingRewriteKeepsInstruction ==
    [][\A job_id \in DOMAIN threads :
         /\ \A reply \in AuditorReplies :
                (/\ Rejects(job_id, reply)
                 /\ Get(audit_and_revise(reply), "new_instructions", "") \in {"", None})
                    => threads'[job_id].state.instructions[CurrentRole(threads[job_id])]
                           = threads[job_id].state.instructions[CurrentRole(threads[job_id])]
         /\ \A reply \in WriterReplies :
                (/\ Dispatch(job_id, reply)
                 /\ ~Raised(reply)
                 /\ threads[job_id].state.retry_counts[CurrentRole(threads[job_id])] > 0)
                    => threads'[job_id].pc = "L179"]_vars

\* C7: a status response shows a null result unless its status is completed,
\* and then the result is the writer's latest output.
C7_ResultOnlyWhenCompleted ==
    "status" \in DOMAIN response
        => /\ response.status # "completed" => response.result = None
           /\ response.status = "completed"
                  => response.result = threads[response.id].state.copy

\* C8: once a status response shows a status other than running, the job stays
\* as that response showed it: status, log, result and progress.
C8_FrozenAfterTerminal ==
    ("status" \in DOMAIN response /\ response.status # "running")
        => jobs[response.id] = response

\* C9: every job started ends completed or failed: when its thread is over,
\* its status is one of the two.
C9_EveryJobEnds ==
    \A job_id \in DOMAIN threads :
        threads[job_id].pc \in {"returned", "died"}
            => jobs[job_id].status \in {"completed", "failed"}

\* C10: a job's progress never decreases from one step to the next and is
\* always in 0..100.
C10_ProgressMonotone ==
    [][\A job_id \in DOMAIN jobs' :
         /\ jobs'[job_id].progress \in 0..100
         /\ job_id \in DOMAIN jobs => jobs'[job_id].progress >= jobs[job_id].progress]_vars

\* A run went through dispatches, a rejection, an approval and a failure with
\* its progress above zero.
C10_Witness ==
    \E job_id \in DOMAIN jobs :
        /\ jobs[job_id].progress = 50
        /\ jobs[job_id].status = "failed"
        /\ threads[job_id].state.retry_counts["WRITER"] >= 1

\* The message of the rejection event's follow-up, and of the escalation event.
RetryMessage(n) == "REWRITING PROMPT FOR AGENT (Retry " \o ToString(n) \o ")..."
EscalatedMessage == "Max retries hit. Accepting result."
ApprovedMessage == "Approved."

\* The number of events of the log that carry the message.
Count(logs, message) == Cardinality({i \in 1..Len(logs) : logs[i].message = message})

\* The thread had records to work on and is over.
RunOver(f) == f.pc = "returned" /\ "state" \in DOMAIN f

\* C11: when the auditor returns FAIL on every audit, a run that is over has
\* recorded for each phase exactly the rejections of retry 1, 2 and 3 and then one
\* escalation that kept the phase's artifact; its status is completed and its
\* result is the writer's last artifact.
C11_AllFailEscalates ==
    \A job_id \in DOMAIN threads :
        RunOver(threads[job_id]) =>
            /\ \A n \in 1..MAX_RETRIES :
                   Count(jobs[job_id].logs, RetryMessage(n)) = Len(phases)
            /\ Count(jobs[job_id].logs, EscalatedMessage) = Len(phases)
            /\ \A r \in Roles : threads[job_id].state.retry_counts[r] = MAX_RETRIES
            /\ \A i \in 1..Len(phases) : threads[job_id].state[phases[i].key] # None
            /\ jobs[job_id].status = "completed"
            /\ jobs[job_id].result = threads[job_id].state.copy

\* The lifecycle events of the log: the dispatch of a role, a rejection, an
\* approval, an escalation.
DispatchMessagesOf == [r \in Roles |-> {PromptMessage(r, i) : i \in InstructionValues}]
DispatchOf(event, role) == event.message \in DispatchMessagesOf[role]
IsDispatch(event) == event.message \in DispatchMessages
IsRejected(event) == event.template = "Prompt Modification Required"
IsClosing(event) == event.message \in {ApprovedMessage, EscalatedMessage}
IsLifecycle(event) == IsRejected(event) \/ IsClosing(event) \/ IsDispatch(event)
AuditingMessages == {"Auditing " \o r \o "..." : r \in Roles}
IsAuditing(event) == event.message \in AuditingMessages

\* The number of phases the log shows closed (approved or escalated).
Closed(logs) == Cardinality({k \in 1..Len(logs) : IsClosing(logs[k])})

\* The lifecycle events that `new` adds to the log `old` continue, phase after
\* phase in the declared order, the pattern dispatch, (rejected, dispatch)*,
\* approved or escalated: a dispatch of the phase in turn opens the log and
\* follows a rejection or a closing event, and nothing else follows a dispatch
\* but a rejection or a closing event.
Continues(old, new) ==
    LET added == SelectSeq(SubSeq(new, Len(old) + 1, Len(new)), IsLifecycle)
        L == SelectSeq(old, IsLifecycle) \o added
    IN  \A i \in (Len(L) - Len(added) + 1)..Len(L) :
            IF i = 1 \/ IsClosing(L[i - 1]) \/ IsRejected(L[i - 1])
            THEN LET closed == Closed(SubSeq(L, 1, i - 1))
                 IN  closed < Len(phases) /\ DispatchOf(L[i], phases[closed + 1].role)
            ELSE IsRejected(L[i]) \/ IsClosing(L[i])

\* C12: in every run the lifecycle events of each phase are a dispatch, then
\* (rejected, dispatch) pairs, then one approved or escalated event: every step
\* extends the log along that pattern, and a completed run has closed every
\* phase once; a step that audits finds the phase's artifact present, and a loop
\* iteration dispatches or audits, never both.
C12_LifecycleOrder ==
    [][\A job_id \in DOMAIN threads :
         jobs'[job_id] # jobs[job_id] =>
             /\ Continues(jobs[job_id].logs, jobs'[job_id].logs)
             /\ jobs'[job_id].status = "completed" =>
                    Closed(jobs'[job_id].logs) = Len(phases)
             /\ AtPhase(threads[job_id]) =>
                    LET dispatched == \E e \in Appended(job_id) : IsDispatch(e)
                        audited == \E e \in Appended(job_id) : IsAuditing(e)
                    IN  /\ dispatched # audited
                        /\ audited =>
                               threads[job_id].state[CurrentKey(threads[job_id])] # None]_vars

\* A completed run whose first phase was rejected and then escalated and whose
\* second phase was approved.
C12_Witness ==
    \E job_id \in DOMAIN jobs :
        /\ jobs[job_id].status = "completed"
        /\ Count(jobs[job_id].logs, EscalatedMessage) = 1
        /\ Count(jobs[job_id].logs, ApprovedMessage) = 1

\* The phases before the cursor have an artifact and the phases after it none.
ArtifactsInOrder(f) ==
    \A k \in 1..Len(phases) :
        /\ k < f.current_phase_idx + 1 => f.state[phases[k].key] # None
        /\ k > f.current_phase_idx + 1 => f.state[phases[k].key] = None

\* C13: phases are processed in the declared order: a step leaves the phase
\* cursor where it is or moves it to the next phase, a step that approves or
\* escalates a phase moves it (the phase is not dispatched or audited again), and
\* every phase before the cursor has an artifact while every phase after it has
\* none.
C13_DeclaredOrder ==
    [][\A job_id \in DOMAIN threads :
         "state" \in DOMAIN threads'[job_id] =>
             LET f == threads[job_id]
                 g == threads'[job_id]
             IN  /\ ArtifactsInOrder(g)
                 /\ "state" \in DOMAIN f =>
                        /\ g.current_phase_idx \in
                               {f.current_phase_idx, f.current_phase_idx + 1}
                        /\ (\E e \in Appended(job_id) : IsClosing(e)) =>
                               g.current_phase_idx = f.current_phase_idx + 1
                        /\ g.current_phase_idx # f.current_phase_idx =>
                               \E e \in Appended(job_id) : IsClosing(e)]_vars

\* The writer phase is being processed, with its artifact present, after the
\* research phase was escalated.
C13_Witness ==
    \E job_id \in DOMAIN threads :
        /\ AtPhase(threads[job_id])
        /\ threads[job_id].current_phase_idx = 1
        /\ threads[job_id].state.copy # None
        /\ threads[job_id].state.retry_counts["RESEARCHER"] = MAX_RETRIES
        /\ Count(jobs[job_id].logs, EscalatedMessage) = 1

\* The thread is in, or past, the handler of an exception of the loop.
Faulted(f) == "e" \in DOMAIN f

\* C14: an exception raised by a worker during a dispatch, or while an audit is
\* handled, takes the run to the handler with that exception's message; from
\* there the run dispatches and audits nothing more, its result stays null, its
\* status becomes failed and the message is the last event of its log.
C14_FaultEndsRun ==
    [][\A job_id \in DOMAIN threads :
         LET f == threads[job_id]
             g == threads'[job_id]
         IN  /\ (AtPhase(f) /\ f.state[CurrentKey(f)] = None /\ CurrentRole(f) = "WRITER") =>
                    \A reply \in WriterReplies :
                        (Raised(reply) /\ Dispatch(job_id, reply)) =>
                            g.pc = "L229" /\ g.e = reply.exc
             /\ Faulted(g) =>
                    /\ g.pc \in {"L229", "L230", "returned"}
                    /\ jobs'[job_id].result = None
                    /\ g.pc # "L229" => jobs'[job_id].status = "failed"
                    /\ g.pc = "returned" =>
                           jobs'[job_id].logs[Len(jobs'[job_id].logs)].message
                               = "Critical Error: " \o g.e
             /\ Faulted(f) =>
                    /\ Faulted(g) /\ g.e = f.e /\ g.state = f.state
                    /\ \A e \in Appended(job_id) : ~IsDispatch(e) /\ ~IsAuditing(e)]_vars

\* A run is over after its writer raised on the retry that followed a rejection.
C14_Witness ==
    \E job_id \in DOMAIN threads :
        /\ threads[job_id].pc = "returned"
        /\ Faulted(threads[job_id])
        /\ threads[job_id].e = "Connection error."
        /\ threads[job_id].state.retry_counts["WRITER"] = 1
        /\ jobs[job_id].status = "failed"

\* The step wiped the artifact of the phase the thread is at: a rejection.
Rejected(f, g) ==
    /\ AtPhase(f)
    /\ f.state[CurrentKey(f)] # None
    /\ g.state[CurrentKey(f)] = None

\* C15: every dispatch hands its phase that phase's own instruction, so an
\* instruction stored by a rejection of phase P reaches dispatches of P only; and
\* a rejection of P leaves the instruction, the retry counter and the artifact of
\* every other phase unchanged.
C15_InstructionPerPhase ==
    [][\A job_id \in DOMAIN threads :
         LET f == threads[job_id]
             g == threads'[job_id]
         IN  AtPhase(f) =>
                 /\ \A e \in Appended(job_id) :
                        IsDispatch(e) =>
                            e.message = PromptMessage(CurrentRole(f),
                                                      f.state.instructions[CurrentRole(f)])
                 /\ Rejected(f, g) =>
                        \A k \in 1..Len(phases) :
                            phases[k].role # CurrentRole(f) =>
                                /\ g.state.instructions[phases[k].role]
                                       = f.state.instructions[phases[k].role]
                                /\ g.state.retry_counts[phases[k].role]
                                       = f.state.retry_counts[phases[k].role]
                                /\ g.state[phases[k].key] = f.state[phases[k].key]]_vars

\* The writer was dispatched with its initial instruction after a rejection had
\* replaced the researcher's, and was then rejected itself.
C15_Witness ==
    \E job_id \in DOMAIN threads :
        /\ "state" \in DOMAIN threads[job_id]
        /\ threads[job_id].state.instructions["RESEARCHER"] \in Rewrites
        /\ threads[job_id].state.retry_counts["WRITER"] = 1
        /\ Count(jobs[job_id].logs,
                 PromptMessage("WRITER", InitialInstructions["WRITER"])) = 1

\* The kind of an event of the log: the template log_to_job rendered it with.
Kind(event) == event.template

\* C16: in a log, the event of an escalation has a kind different from the kind
\* of every approval event and of every rejection event.
C16_EscalationKindDistinct ==
    \A job_id \in DOMAIN jobs :
        \A i, j \in 1..Len(jobs[job_id].logs) :
            LET escalated == jobs[job_id].logs[i]
                other == jobs[job_id].logs[j]
            IN  (/\ escalated.message = EscalatedMessage
                 /\ other.message = ApprovedMessage \/ IsRejected(other))
                    => Kind(escalated) # Kind(other)

\* C17: with two jobs running concurrently, a step of one job's thread leaves the
\* other job's record (log, status, result, progress) and the other thread as
\* they were, and a job's record changes only in a step of its own thread: each
\* job's record evolves as it does when the job runs alone.
C17_JobsIsolated ==
    [][\A job_id \in DOMAIN jobs :
         /\ jobs'[job_id] # jobs[job_id] => threads'[job_id] # threads[job_id]
         /\ threads'[job_id] # threads[job_id] =>
                \A other \in DOMAIN jobs \ {job_id} :
                    jobs'[other] = jobs[other] /\ threads'[other] = threads[other]]_vars

\* Both jobs ran interleaved: one has completed while the other, already
\* rejected once, is still in its loop.
C17_Witness ==
    \E a, b \in DOMAIN threads :
        /\ a # b
        /\ jobs[a].status = "completed"
        /\ threads[a].pc = "returned"
        /\ AtPhase(threads[b])
        /\ threads[b].state.retry_counts["WRITER"] = 1
        /\ jobs[a].logs # jobs[b].logs

----------------------------------------------------------------------------
\* Two runs against a completion backend that answers the same prompt the same
\* way (ChatOpenAI with temperature 0.0, main.py:152).

\* main.py:139-144  the values the writer's chain is invoked with
WriterPrompt(state, instructions) ==
    LET record == state.input_records[1]
    IN  <<"writer", Get(record, "firstName", "there"),
          Get(record, "companyName", "your company"),
          Str(state.research), Str(instructions)>>

\* main.py:91-96  the values the auditor's chain is invoked with; the texts of
\* this model are shorter than the 3000 characters the content is cut to
AuditorPrompt(task_name, current_content, previous_instructions, criteria) ==
    <<"auditor", task_name, Str(current_content), criteria, Str(previous_instructions)>>

\* The backend gives `reply` to the prompt: any outcome to a prompt it has not
\* seen, the outcome it gave before to one it has.
Answers(prompt, reply) == prompt \in DOMAIN backend => backend[prompt] = reply

\* The outcomes the backend can give: to the writer's chain one text or an
\* exception; to the auditor's chain a PASS, a FAIL with or without a rewrite, or
\* a text that is not JSON.
ReplayWriterReplies == TwoJobsWriterReplies
ReplayAuditorReplies ==
    TwoJobsAuditorReplies \cup
        {Return([status |-> "FAIL", reason |-> "too formal",
                 new_instructions |-> "Rewrite #1: cover the tech stack."]),
         Raise("Invalid json output")}

\* A dispatch: the researcher calls no backend, the writer's chain is answered.
DispatchReplayed(job_id) ==
    LET f == threads[job_id]
        role == CurrentRole(f)
        prompt == WriterPrompt(f.state, f.state.instructions[role])
    IN  /\ AtPhase(f)
        /\ IF role = "RESEARCHER"
           THEN Dispatch(job_id, Raise("unused")) /\ UNCHANGED backend
           ELSE \E reply \in ReplayWriterReplies :
                    /\ Answers(prompt, reply)
                    /\ Dispatch(job_id, reply)
                    /\ backend' = Bind(backend, prompt, reply)

\* An audit: the auditor's chain is answered.
AuditReplayed(job_id) ==
    LET f == threads[job_id]
        phase == phases[f.current_phase_idx + 1]
        prompt == AuditorPrompt(phase.role, f.state[phase.key],
                                f.state.instructions[phase.role], phase.criteria)
    IN  /\ AtPhase(f)
        /\ \E reply \in ReplayAuditorReplies :
               /\ Answers(prompt, reply)
               /\ Audit(job_id, reply)
               /\ backend' = Bind(backend, prompt, reply)

\* The job is submitted when no earlier run is still going.
Rerun(job_id, data) ==
    /\ \A j \in DOMAIN threads : threads[j].pc \in {"returned", "died"}
    /\ start_job(job_id, data)

NextReplay ==
    \/ \E job_id \in RunIds, data \in TwoJobsPayloads : Rerun(job_id, data) /\ UNCHANGED backend
    \/ Tick /\ UNCHANGED backend
    \/ \E job_id \in DOMAIN threads : Setup(job_id) /\ UNCHANGED backend
    \/ \E job_id \in DOMAIN threads : DispatchReplayed(job_id)
    \/ \E job_id \in DOMAIN threads : AuditReplayed(job_id)
    \/ \E job_id \in DOMAIN threads : SetResult(job_id) /\ UNCHANGED backend
    \/ \E job_id \in DOMAIN threads : SetCompleted(job_id) /\ UNCHANGED backend
    \/ \E job_id \in DOMAIN threads : SetProgress(job_id) /\ UNCHANGED backend
    \/ \E job_id \in DOMAIN threads : LogComplete(job_id) /\ UNCHANGED backend
    \/ \E job_id \in DOMAIN threads : SetFailed(job_id) /\ UNCHANGED backend
    \/ \E job_id \in DOMAIN threads : LogError(job_id) /\ UNCHANGED backend

SpecReplay == InitTwoJobs /\ [][NextReplay]_vars

\* The events of a log without the wall-clock time rendered into them.
Untimed(logs) ==
    [i \in 1..Len(logs) |->
        [k \in DOMAIN logs[i] \ {"timestamp"} |-> logs[i][k]]]

\* Two runs on the same payload are over.
BothRunsOver(a, b) ==
    /\ a # b
    /\ threads[a].input_data = threads[b].input_data
    /\ threads[a].pc = "returned"
    /\ threads[b].pc = "returned"

\* C18 as stated: two runs on the same payload against a backend that answers
\* the same prompt the same way leave identical logs and identical results.
C18_RunsIdentical ==
    \A a, b \in DOMAIN threads :
        BothRunsOver(a, b) =>
            /\ jobs[a].logs = jobs[b].logs
            /\ jobs[a].result = jobs[b].result

\* C18: two runs on the same payload against a backend that answers the same
\* prompt the same way leave logs that are identical but for the time of day
\* rendered into their events, identical results and identical final statuses.
C18_RunsIdenticalButForTime ==
    \A a, b \in DOMAIN threads :
        BothRunsOver(a, b) =>
            /\ Untimed(jobs[a].logs) = Untimed(jobs[b].logs)
            /\ jobs[a].result = jobs[b].result
            /\ jobs[a].status = jobs[b].status

\* Two completed runs, the writer rejected once in each, logged at different
\* seconds.
C18_Witness ==
    \E a, b \in DOMAIN threads :
        /\ BothRunsOver(a, b)
        /\ jobs[a].status = "completed"
        /\ threads[a].state.retry_counts["WRITER"] = 1
        /\ threads[b].state.retry_counts["WRITER"] = 1
        /\ jobs[a].logs # jobs[b].logs

\* C19: a phase's instruction changes only in the reject-and-retry transition,
\* the step of an audit that raises the phase's retry counter, and only for the
\* phase at the cursor; every other step leaves every instruction as it was; and
\* a phase that has not been rejected has the instruction it was given when the
\* run started.
C19_InstructionFrame ==
    [][\A job_id \in DOMAIN threads :
         "state" \in DOMAIN threads'[job_id] =>
             LET f == threads[job_id]
                 g == threads'[job_id]
             IN  /\ \A r \in Roles :
                        g.state.retry_counts[r] = 0 =>
                            g.state.instructions[r] =
                                (IF r = "RESEARCHER"
                                 THEN "Find general strategic challenges and financial health."
                                 ELSE "Write a standard professional connection request (under 300 chars).")
                 /\ "state" \in DOMAIN f =>
                        \A r \in Roles :
                            g.state.instructions[r] # f.state.instructions[r] =>
                                /\ AtPhase(f)
                                /\ r = CurrentRole(f)
                                /\ f.state.retry_counts[r] < MAX_RETRIES
                                /\ g.state.retry_counts[r] = f.state.retry_counts[r] + 1
                                /\ \E e \in Appended(job_id) : IsAuditing(e)]_vars

\* The writer's instruction was replaced by its third rejection while the
\* researcher, never rejected, still has its initial instruction.
C19_Witness ==
    \E job_id \in DOMAIN threads :
        /\ "state" \in DOMAIN threads[job_id]
        /\ threads[job_id].state.retry_counts["WRITER"] = MAX_RETRIES
        /\ threads[job_id].state.instructions["WRITER"] \in Rewrites
        /\ threads[job_id].state.retry_counts["RESEARCHER"] = 0

\* The number of times the log shows the role's worker prompted, and the role's
\* output audited.
Dispatches(logs, role) == Cardinality({i \in 1..Len(logs) : DispatchOf(logs[i], role)})
Audits(logs, role) == Count(logs, "Auditing " \o role \o "...")

\* The number of loop iterations the log shows: each one dispatches or audits.
Iterations(logs) ==
    Cardinality({i \in 1..Len(logs) : IsDispatch(logs[i]) \/ IsAuditing(logs[i])})

\* C20: in a run each phase's worker is invoked at most MAX_RETRIES + 1 times
\* and its auditor at most MAX_RETRIES + 1 times, so the loop runs at most
\* 2 * (MAX_RETRIES + 1) iterations per phase, 16 for the two phases.
C20_BoundedWork ==
    \A job_id \in DOMAIN jobs :
        /\ \A r \in Roles :
               /\ Dispatches(jobs[job_id].logs, r) <= MAX_RETRIES + 1
               /\ Audits(jobs[job_id].logs, r) <= MAX_RETRIES + 1
        /\ Iterations(jobs[job_id].logs) <= 2 * (MAX_RETRIES + 1) * Len(phases)
        /\ Iterations(jobs[job_id].logs) <= 16

\* A run used its whole budget: both phases were dispatched four times and
\* audited four times, sixteen iterations in all.
C20_Witness ==
    \E job_id \in DOMAIN jobs :
        /\ \A r \in Roles :
               /\ Dispatches(jobs[job_id].logs, r) = 4
               /\ Audits(jobs[job_id].logs, r) = 4
        /\ Iterations(jobs[job_id].logs) = 16

====
